---- MODULE Spec2Model ----
(***************************************************************************)
(* Model of the authorization service: token validation, method/path       *)
(* mapping, wildcard pattern generation, specificity scoring, the          *)
(* permission repository query and the deny/allow resolution.              *)
(*                                                                         *)
(* Strings that the code splits, joins or compares character by character  *)
(* (paths, resources, patterns, methods) are sequences of one-character    *)
(* strings; StrOf turns one into a TLA+ string where the code interpolates *)
(* it into a message.                                                      *)
(***************************************************************************)
EXTENDS Integers, Sequences, FiniteSets, TLC

VARIABLES store, pc, request, call, response, fn, inflight

vars == <<store, pc, request, call, response, fn, inflight>>

(***************************************************************************)
(* Bounds of the model.                                                    *)
(***************************************************************************)
\* deepest resource a request names, in segments
MaxSegs == 4
\* most rows the user_permissions table holds
MaxRows == 2
\* deepest resource a direct call of a pathMapper function is given
MaxFnSegs == 5
\* longest path a direct call of mapPathToResource is given, in characters
MaxPathLen == 5
\* authorize calls in flight at the same time
MaxCalls == 2

(***************************************************************************)
(* String helpers (JavaScript String/Array primitives).                    *)
(***************************************************************************)
Range(s) == {s[i] : i \in 1..Len(s)}

RECURSIVE StrOf(_)
StrOf(s) == IF s = <<>> THEN "" ELSE Head(s) \o StrOf(Tail(s))

Slash == "/"
Star == <<"*">>

\* String.prototype.split(sep) for a one-character separator: the list of
\* (possibly empty) pieces between separators; "" splits to [""].
RECURSIVE SplitAcc(_, _, _)
SplitAcc(s, sep, cur) ==
    IF s = <<>> THEN <<cur>>
    ELSE IF Head(s) = sep THEN <<cur>> \o SplitAcc(Tail(s), sep, <<>>)
    ELSE SplitAcc(Tail(s), sep, Append(cur, Head(s)))

Split(s, sep) == SplitAcc(s, sep, <<>>)

\* Array.prototype.join(sep)
RECURSIVE Join(_, _)
Join(parts, sep) ==
    IF parts = <<>> THEN <<>>
    ELSE IF Len(parts) = 1 THEN parts[1]
    ELSE parts[1] \o <<sep>> \o Join(Tail(parts), sep)

\* Array.prototype.slice(from, to) with 0-based from (inclusive) and to
\* (exclusive), both already non-negative.
Slice(a, from, to) ==
    IF to <= from THEN <<>> ELSE [k \in 1..(to - from) |-> a[from + k]]

\* Mutation: an Array push instead of a Set add.
SetAddPush(s, x) == Append(s, x)

\* Set.prototype.add on an insertion-ordered Set kept as a sequence
SetAdd(s, x) == IF x \in Range(s) THEN s ELSE Append(s, x)

\* segments.map((seg, idx) => idx === i ? '*' : seg), i 0-based
ReplaceAt(segs, i) == [k \in 1..Len(segs) |-> IF k - 1 = i THEN Star ELSE segs[k]]

(***************************************************************************)
(* utils/pathMapper.ts                                                     *)
(***************************************************************************)
UpperChar(c) ==
    CASE c = "a" -> "A" [] c = "b" -> "B" [] c = "c" -> "C" [] c = "d" -> "D"
      [] c = "e" -> "E" [] c = "f" -> "F" [] c = "g" -> "G" [] c = "h" -> "H"
      [] c = "i" -> "I" [] c = "j" -> "J" [] c = "k" -> "K" [] c = "l" -> "L"
      [] c = "m" -> "M" [] c = "n" -> "N" [] c = "o" -> "O" [] c = "p" -> "P"
      [] c = "q" -> "Q" [] c = "r" -> "R" [] c = "s" -> "S" [] c = "t" -> "T"
      [] c = "u" -> "U" [] c = "v" -> "V" [] c = "w" -> "W" [] c = "x" -> "X"
      [] c = "y" -> "Y" [] c = "z" -> "Z" [] OTHER -> c

ToUpperCase(s) == [k \in 1..Len(s) |-> UpperChar(s[k])]

\* The result of a call that may throw: ok with a value, or an Error message.
Ok(v) == [ok |-> TRUE, value |-> v, error |-> ""]
Throw(msg) == [ok |-> FALSE, value |-> "", error |-> msg]

\* Mutation: the Error names the upper-cased method.
mapHttpMethodToActionUpperMessage(method) ==
    LET m == StrOf(ToUpperCase(method)) IN
    IF m = "GET" THEN Ok("read")
    ELSE IF m \in {"POST", "PUT", "PATCH"} THEN Ok("write")
    ELSE IF m = "DELETE" THEN Ok("delete")
    ELSE Throw("Unsupported HTTP method: " \o m)

mapHttpMethodToAction(method) ==
    LET m == StrOf(ToUpperCase(method)) IN
    IF m = "GET" THEN Ok("read")
    ELSE IF m \in {"POST", "PUT", "PATCH"} THEN Ok("write")
    ELSE IF m = "DELETE" THEN Ok("delete")
    ELSE Throw("Unsupported HTTP method: " \o StrOf(method))

\* path.replace(/^\/+/, '')
RECURSIVE StripLeadingSlashes(_)
StripLeadingSlashes(s) ==
    IF s # <<>> /\ Head(s) = Slash THEN StripLeadingSlashes(Tail(s)) ELSE s

\* cleanPath.replace(/\/+$/, '')
RECURSIVE StripTrailingSlashes(_)
StripTrailingSlashes(s) ==
    IF s # <<>> /\ s[Len(s)] = Slash
    THEN StripTrailingSlashes(SubSeq(s, 1, Len(s) - 1)) ELSE s

\* Mutation: the trailing slashes are stripped before the query is cut off.
mapPathToResourceQueryLast(path) ==
    LET noLead == StripLeadingSlashes(path)
        noTrail == StripTrailingSlashes(noLead)
        cleanPath == Split(noTrail, "?")[1]
    IN IF cleanPath = <<>> THEN Star ELSE cleanPath

mapPathToResource(path) ==
    LET noLead == StripLeadingSlashes(path)
        noQuery == Split(noLead, "?")[1]
        cleanPath == StripTrailingSlashes(noQuery)
    IN IF cleanPath = <<>> THEN Star ELSE cleanPath

\* Mutation: the parent loop stops at i > 1 and never adds the top-level
\* wildcard.
RECURSIVE ParentWildcardsSkipTop(_, _, _)
ParentWildcardsSkipTop(patterns, segments, i) ==
    IF i > 1
    THEN ParentWildcardsSkipTop(
             SetAdd(patterns, Join(Slice(segments, 0, i), Slash) \o <<Slash, "*">>),
             segments, i - 1)
    ELSE patterns

\* Mutation: the parent loop runs down to i = 0 and adds the pattern /*.
RECURSIVE ParentWildcardsFromZero(_, _, _)
ParentWildcardsFromZero(patterns, segments, i) ==
    IF i >= 0
    THEN ParentWildcardsFromZero(
             SetAdd(patterns, Join(Slice(segments, 0, i), Slash) \o <<Slash, "*">>),
             segments, i - 1)
    ELSE patterns

\* for (let i = segments.length - 1; i > 0; i--) patterns.add(parent + '/*')
RECURSIVE ParentWildcards(_, _, _)
ParentWildcards(patterns, segments, i) ==
    IF i > 0
    THEN ParentWildcards(
             SetAdd(patterns, Join(Slice(segments, 0, i), Slash) \o <<Slash, "*">>),
             segments, i - 1)
    ELSE patterns

\* for (let i = 1; i < segments.length - 1; i++) add segments with i starred
RECURSIVE MiddleWildcards(_, _, _)
MiddleWildcards(patterns, segments, i) ==
    IF i < Len(segments) - 1
    THEN MiddleWildcards(SetAdd(patterns, Join(ReplaceAt(segments, i), Slash)),
                         segments, i + 1)
    ELSE patterns

\* Mutation: slice(i + 1) keeps the last segment before the final wildcard.
RECURSIVE MultiWildcardsKeepLast(_, _, _)
MultiWildcardsKeepLast(patterns, segments, i) ==
    IF i < Len(segments) - 2
    THEN MultiWildcardsKeepLast(
             SetAdd(patterns,
                    Join(Slice(segments, 0, i) \o <<Star>>
                           \o Slice(segments, i + 1, Len(segments)) \o <<Star>>,
                         Slash)),
             segments, i + 1)
    ELSE patterns

\* for (let i = 1; i < segments.length - 2; i++)
\*   add slice(0,i).concat('*', slice(i+1,-1), '*')
RECURSIVE MultiWildcards(_, _, _)
MultiWildcards(patterns, segments, i) ==
    IF i < Len(segments) - 2
    THEN MultiWildcards(
             SetAdd(patterns,
                    Join(Slice(segments, 0, i) \o <<Star>>
                           \o Slice(segments, i + 1, Len(segments) - 1) \o <<Star>>,
                         Slash)),
             segments, i + 1)
    ELSE patterns

generateResourcePatterns(resource) ==
    LET segments == Split(resource, Slash)
        n == Len(segments)
        p1 == <<resource>>
        p2 == ParentWildcards(p1, segments, n - 1)
        p3a == IF n >= 3
               THEN SetAdd(p2, segments[1] \o <<Slash, "*", Slash>> \o segments[n])
               ELSE p2
        p3 == IF n > 3 THEN MiddleWildcards(p3a, segments, 1) ELSE p3a
        p4 == IF n >= 4 THEN MultiWildcards(p3, segments, 1) ELSE p3
    IN SetAdd(p4, Star)

\* JavaScript numbers that occur in a score or in a difference of two score
\* components: finite integers, the infinities and NaN.
Fin(n) == [k |-> "fin", v |-> n]
NegInfinity == [k |-> "-inf", v |-> 0]
PosInfinity == [k |-> "+inf", v |-> 0]
NaN == [k |-> "nan", v |-> 0]

\* x - y in IEEE arithmetic, for x and y finite or -Infinity
NumSub(x, y) ==
    IF x.k = "fin" /\ y.k = "fin" THEN Fin(x.v - y.v)
    ELSE IF x.k = "fin" /\ y.k = "-inf" THEN PosInfinity
    ELSE IF x.k = "-inf" /\ y.k = "fin" THEN NegInfinity
    ELSE NaN

\* (matchedResource.match(/\*/g) || []).length
CountStars(s) == Cardinality({i \in 1..Len(s) : s[i] = "*"})

\* Mutation: the global wildcard is scored by the general formula.
calculateSpecificityScoreNoSentinel(resource, matchedResource) ==
    LET segments == Split(matchedResource, Slash)
        wildcardCount == CountStars(matchedResource)
        nonWildcardSegments == Len(segments) - wildcardCount
    IN <<Fin(IF resource = matchedResource THEN 1 ELSE 0),
         Fin(nonWildcardSegments),
         Fin(0 - wildcardCount)>>

\* Mutation: the exactness test is inverted.
calculateSpecificityScoreInverted(resource, matchedResource) ==
    IF matchedResource = Star
    THEN <<Fin(0), Fin(0), NegInfinity>>
    ELSE LET segments == Split(matchedResource, Slash)
             wildcardCount == CountStars(matchedResource)
             nonWildcardSegments == Len(segments) - wildcardCount
         IN <<Fin(IF resource = matchedResource THEN 0 ELSE 1),
              Fin(nonWildcardSegments),
              Fin(0 - wildcardCount)>>

\* Mutation: exactness is 1 as soon as the first segments agree.
calculateSpecificityScoreFirstSegment(resource, matchedResource) ==
    IF matchedResource = Star
    THEN <<Fin(0), Fin(0), NegInfinity>>
    ELSE LET segments == Split(matchedResource, Slash)
             wildcardCount == CountStars(matchedResource)
             nonWildcardSegments == Len(segments) - wildcardCount
         IN <<Fin(IF Split(resource, Slash)[1] = segments[1] THEN 1 ELSE 0),
              Fin(nonWildcardSegments),
              Fin(0 - wildcardCount)>>

calculateSpecificityScore(resource, matchedResource) ==
    IF matchedResource = Star
    THEN <<Fin(0), Fin(0), NegInfinity>>
    ELSE LET segments == Split(matchedResource, Slash)
             wildcardCount == CountStars(matchedResource)
             nonWildcardSegments == Len(segments) - wildcardCount
         IN <<Fin(IF resource = matchedResource THEN 1 ELSE 0),
              Fin(nonWildcardSegments),
              Fin(0 - wildcardCount)>>

(***************************************************************************)
(* services/tokenService.ts                                                *)
(***************************************************************************)
IsSpace(c) == c \in {" ", "\t"}

RECURSIVE StripSpaces(_)
StripSpaces(s) == IF s # <<>> /\ IsSpace(Head(s)) THEN StripSpaces(Tail(s)) ELSE s

\* token.replace(/^Bearer\s+/i, '')
StripBearer(token) ==
    IF /\ Len(token) >= 7
       /\ StrOf(ToUpperCase(SubSeq(token, 1, 6))) = "BEARER"
       /\ IsSpace(token[7])
    THEN StripSpaces(SubSeq(token, 7, Len(token)))
    ELSE token

\* jose's jwtVerify against the Auth0 key set, as the identity provider
\* answers for the tokens of the model: the payload piece "x" is an expired
\* token, every other three-piece token verifies.
jwtVerify(cleanToken) ==
    IF Split(cleanToken, ".")[2] = <<"x">>
    THEN Throw("\"exp\" claim timestamp check failed")
    ELSE Ok("payload")

\* axios.get(userInfoUrl): the nickname in the userinfo document of the
\* token's subject ("" when the document has none), or no document at all.
userInfoGet(cleanToken) ==
    LET sub == Split(cleanToken, ".")[2] IN
    IF sub = <<"1">> THEN [data |-> TRUE, nickname |-> "u1"]
    ELSE IF sub = <<"2">> THEN [data |-> TRUE, nickname |-> "u2"]
    ELSE IF sub = <<"d">> THEN [data |-> FALSE, nickname |-> ""]
    ELSE [data |-> TRUE, nickname |-> ""]

validateToken(token) ==
    LET cleanToken == StripBearer(token)
        tokenParts == Split(cleanToken, ".")
    IN IF Len(tokenParts) # 3
       THEN [valid |-> FALSE, error |-> "Invalid token format",
             payload |-> FALSE, nickname |-> ""]
       ELSE LET verified == jwtVerify(cleanToken)
                userInfo == userInfoGet(cleanToken)
            IN IF ~verified.ok
               THEN [valid |-> FALSE,
                     error |-> "Auth0 token validation failed: " \o verified.error,
                     payload |-> FALSE, nickname |-> ""]
               ELSE IF ~userInfo.data
               THEN [valid |-> FALSE, error |-> "User ID not found in Auth0 token",
                     payload |-> FALSE, nickname |-> ""]
               ELSE [valid |-> TRUE, error |-> "", payload |-> TRUE,
                     nickname |-> userInfo.nickname]

(***************************************************************************)
(* PermissionRepository (config/database.ts, second half)                  *)
(***************************************************************************)
\* all orderings of a finite set
RECURSIVE Perms(_)
Perms(S) ==
    IF S = {} THEN {<<>>}
    ELSE UNION {{<<x>> \o p : p \in Perms(S \ {x})} : x \in S}

\* Mutation: the WHERE clause without the user_id condition.
SqlWhereAnyUser(rows, userId, action, patterns) ==
    {r \in rows : r.action = action /\ r.resource \in Range(patterns)}

\* WHERE user_id = ? AND action = ? AND resource IN (patterns)
SqlWhere(rows, userId, action, patterns) ==
    {r \in rows : /\ r.user_id = userId
                  /\ r.action = action
                  /\ r.resource \in Range(patterns)}

\* ORDER BY CASE effect WHEN 'deny' THEN 0 ELSE 1 END, LENGTH(resource) DESC
SqlOrderKeyLeq(a, b) ==
    LET ea == IF a.effect = "deny" THEN 0 ELSE 1
        eb == IF b.effect = "deny" THEN 0 ELSE 1
    IN \/ ea < eb
       \/ ea = eb /\ Len(a.resource) >= Len(b.resource)

\* SELECT action, resource, effect
SqlSelect(r) == [action |-> r.action, resource |-> r.resource, effect |-> r.effect]

\* The result lists stmt.all may return: the selected rows in any order the
\* ORDER BY clause admits (rows with equal keys come in an unspecified order).
SqlQuery(rows, userId, action, patterns) ==
    {[k \in 1..Len(p) |-> SqlSelect(p[k])] :
        p \in {q \in Perms(SqlWhere(rows, userId, action, patterns)) :
                 \A i, j \in 1..Len(q) : i < j => SqlOrderKeyLeq(q[i], q[j])}}

\* Mutation: the score loop returns a.score[i] - b.score[i] (ascending).
RECURSIVE ScoreDiffAscending(_, _, _)
ScoreDiffAscending(a, b, i) ==
    IF i > Len(a.score) THEN Fin(0)
    ELSE IF a.score[i] # b.score[i] THEN NumSub(a.score[i], b.score[i])
    ELSE ScoreDiffAscending(a, b, i + 1)

\* The comparator handed to Array.prototype.sort
RECURSIVE ScoreDiff(_, _, _)
ScoreDiff(a, b, i) ==
    IF i > Len(a.score) THEN Fin(0)
    ELSE IF a.score[i] # b.score[i] THEN NumSub(b.score[i], a.score[i])
    ELSE ScoreDiff(a, b, i + 1)

\* Mutation: the comparator orders by score alone, without the effect test.
SortCompareScoreOnly(a, b) == ScoreDiff(a, b, 1)

SortCompare(a, b) ==
    IF a.effect # b.effect
    THEN (IF a.effect = "deny" THEN Fin(-1) ELSE Fin(1))
    ELSE ScoreDiff(a, b, 1)

\* Array.prototype.sort reads a comparator result v as: v < 0 puts a first,
\* v > 0 puts b first, zero and NaN leave the two in their order.
PutsAfter(v) == v.k = "+inf" \/ (v.k = "fin" /\ v.v > 0)

\* Mutation: no sort, the list stays in the order of the SQL result.
InsertSortedAppend(sorted, x) == Append(sorted, x)

\* Array.prototype.sort: a stable sort, as insertion of each element behind
\* every element it does not have to precede.
RECURSIVE InsertSorted(_, _)
InsertSorted(sorted, x) ==
    IF sorted = <<>> THEN <<x>>
    ELSE LET last == sorted[Len(sorted)] IN
         IF PutsAfter(SortCompare(last, x))
         THEN Append(InsertSorted(SubSeq(sorted, 1, Len(sorted) - 1), x), last)
         ELSE Append(sorted, x)

RECURSIVE SortPermissions(_)
SortPermissions(list) ==
    IF list = <<>> THEN <<>>
    ELSE InsertSorted(SortPermissions(SubSeq(list, 1, Len(list) - 1)), list[Len(list)])

\* messages of the errors the database driver may throw from prepare/all
StoreErrors == {"SQLITE_BUSY: database is locked", "SQLITE_CORRUPT: malformed"}

\* The outcomes of one findPermissionsWithWildcards call: a sorted list of
\* scored permissions per admissible query result, or a thrown driver error.
findPermissionsWithWildcards(rows, userId, action, resource) ==
    LET patterns == generateResourcePatterns(resource)
        scored(results) ==
            [k \in 1..Len(results) |->
                [action |-> results[k].action,
                 resource |-> results[k].resource,
                 effect |-> results[k].effect,
                 score |-> calculateSpecificityScore(resource, results[k].resource)]]
    IN {[ok |-> TRUE, value |-> SortPermissions(scored(results)), error |-> ""] :
            results \in SqlQuery(rows, userId, action, patterns)}
       \cup {[ok |-> FALSE, value |-> <<>>, error |-> e] : e \in StoreErrors}

(***************************************************************************)
(* services/permissionService.ts                                           *)
(***************************************************************************)
\* Mutation: two scores are equal when every difference is zero.
areScoresEqualByDifference(score1, score2) ==
    \A i \in 1..3 : NumSub(score1[i], score2[i]) = Fin(0)

areScoresEqual(score1, score2) ==
    score1[1] = score2[1] /\ score1[2] = score2[2] /\ score1[3] = score2[3]

\* String.prototype.includes('*')
IncludesStar(s) == \E i \in 1..Len(s) : s[i] = "*"

generateAllowReason(permission, action, resource) ==
    IF permission.resource = resource
    THEN "User has " \o action \o " permission for " \o StrOf(resource)
    ELSE IF permission.resource = Star
    THEN "User has global " \o action \o " permission"
    ELSE IF IncludesStar(permission.resource)
    THEN "User has " \o action \o " permission matching pattern "
             \o StrOf(permission.resource)
    ELSE "User has " \o action \o " permission for " \o StrOf(permission.resource)

\* Mutation: the global wildcard is tested before the exact match.
generateDenyReasonGlobalFirst(permission, action, resource) ==
    IF permission.resource = Star
    THEN "User is globally denied " \o action \o " permission"
    ELSE IF permission.resource = resource
    THEN "User is explicitly denied " \o action \o " permission for " \o StrOf(resource)
    ELSE IF IncludesStar(permission.resource)
    THEN "User is denied " \o action \o " permission by pattern "
             \o StrOf(permission.resource)
    ELSE "User is denied " \o action \o " permission for " \o StrOf(permission.resource)

generateDenyReason(permission, action, resource) ==
    IF permission.resource = resource
    THEN "User is explicitly denied " \o action \o " permission for " \o StrOf(resource)
    ELSE IF permission.resource = Star
    THEN "User is globally denied " \o action \o " permission"
    ELSE IF IncludesStar(permission.resource)
    THEN "User is denied " \o action \o " permission by pattern "
             \o StrOf(permission.resource)
    ELSE "User is denied " \o action \o " permission for " \o StrOf(permission.resource)

\* Mutation: the tie test looks for an allow at the top score and grants on it.
resolvePermissionsAllowOnTie(permissions, action, resource) ==
    IF Len(permissions) = 0
    THEN [allowed |-> FALSE, matchedPermissions |-> <<>>,
          reason |-> "No permissions found for " \o action \o " on " \o StrOf(resource)]
    ELSE LET topPermission == permissions[1]
             SameScore(p) == areScoresEqual(p.score, topPermission.score)
             IsAllow(p) == p.effect = "allow"
             allows == SelectSeq(SelectSeq(permissions, SameScore), IsAllow)
         IN IF allows # <<>>
            THEN [allowed |-> TRUE, matchedPermissions |-> <<allows[1]>>,
                  reason |-> generateAllowReason(allows[1], action, resource)]
            ELSE [allowed |-> FALSE, matchedPermissions |-> <<topPermission>>,
                  reason |-> generateDenyReason(topPermission, action, resource)]

\* Mutation: every permission at the top score is reported as matched.
resolvePermissionsAllTied(permissions, action, resource) ==
    IF Len(permissions) = 0
    THEN [allowed |-> FALSE, matchedPermissions |-> <<>>,
          reason |-> "No permissions found for " \o action \o " on " \o StrOf(resource)]
    ELSE LET topPermission == permissions[1]
             SameScore(p) == areScoresEqual(p.score, topPermission.score)
             sameScorePermissions == SelectSeq(permissions, SameScore)
             IsDeny(p) == p.effect = "deny"
             denies == SelectSeq(sameScorePermissions, IsDeny)
         IN IF denies # <<>>
            THEN [allowed |-> FALSE, matchedPermissions |-> sameScorePermissions,
                  reason |-> generateDenyReason(denies[1], action, resource)]
            ELSE [allowed |-> topPermission.effect = "allow",
                  matchedPermissions |-> sameScorePermissions,
                  reason |-> IF topPermission.effect = "allow"
                             THEN generateAllowReason(topPermission, action, resource)
                             ELSE generateDenyReason(topPermission, action, resource)]

resolvePermissions(permissions, action, resource) ==
    IF Len(permissions) = 0
    THEN [allowed |-> FALSE, matchedPermissions |-> <<>>,
          reason |-> "No permissions found for " \o action \o " on " \o StrOf(resource)]
    ELSE LET topPermission == permissions[1]
             SameScore(p) == areScoresEqual(p.score, topPermission.score)
             sameScorePermissions == SelectSeq(permissions, SameScore)
             IsDeny(p) == p.effect = "deny"
             denies == SelectSeq(sameScorePermissions, IsDeny)
             hasDenyAtSameLevel == denies # <<>>
         IN IF hasDenyAtSameLevel
            THEN LET denyPermission == denies[1] IN
                 [allowed |-> FALSE, matchedPermissions |-> <<denyPermission>>,
                  reason |-> generateDenyReason(denyPermission, action, resource)]
            ELSE LET allowed == topPermission.effect = "allow" IN
                 [allowed |-> allowed, matchedPermissions |-> <<topPermission>>,
                  reason |-> IF allowed
                             THEN generateAllowReason(topPermission, action, resource)
                             ELSE generateDenyReason(topPermission, action, resource)]

\* Mutation: the catch block of checkPermission grants.
checkPermissionOnFailOpen(found, action, resource) ==
    IF ~found.ok
    THEN [allowed |-> TRUE, matchedPermissions |-> <<>>,
          reason |-> "Permission check failed due to system error"]
    ELSE IF Len(found.value) = 0
    THEN [allowed |-> FALSE, matchedPermissions |-> <<>>,
          reason |-> "No permissions found for " \o action \o " on " \o StrOf(resource)]
    ELSE resolvePermissions(found.value, action, resource)

\* Mutation: the catch block of checkPermission puts the error's message
\* into the reason.
checkPermissionOnLeak(found, action, resource) ==
    IF ~found.ok
    THEN [allowed |-> FALSE, matchedPermissions |-> <<>>,
          reason |-> "Permission check failed: " \o found.error]
    ELSE IF Len(found.value) = 0
    THEN [allowed |-> FALSE, matchedPermissions |-> <<>>,
          reason |-> "No permissions found for " \o action \o " on " \o StrOf(resource)]
    ELSE resolvePermissions(found.value, action, resource)

\* Mutation: the empty-result branch of checkPermission is missing its
\* return and falls through to a grant on the (absent) top permission.
checkPermissionOnEmptyGrant(found, action, resource) ==
    IF ~found.ok
    THEN [allowed |-> FALSE, matchedPermissions |-> <<>>,
          reason |-> "Permission check failed due to system error"]
    ELSE IF Len(found.value) = 0
    THEN [allowed |-> TRUE, matchedPermissions |-> <<>>,
          reason |-> "User has " \o action \o " permission for " \o StrOf(resource)]
    ELSE resolvePermissions(found.value, action, resource)

\* What checkPermission does with one outcome of the repository call
checkPermissionOn(found, action, resource) ==
    IF ~found.ok
    THEN [allowed |-> FALSE, matchedPermissions |-> <<>>,
          reason |-> "Permission check failed due to system error"]
    ELSE IF Len(found.value) = 0
    THEN [allowed |-> FALSE, matchedPermissions |-> <<>>,
          reason |-> "No permissions found for " \o action \o " on " \o StrOf(resource)]
    ELSE resolvePermissions(found.value, action, resource)

\* The results checkPermission may return, each with the repository outcome
\* it was computed from.
checkPermission(rows, userId, action, resource) ==
    {[found |-> found, result |-> checkPermissionOn(found, action, resource)] :
        found \in findPermissionsWithWildcards(rows, userId, action, resource)}

(***************************************************************************)
(* services/authorizationService.ts                                        *)
(***************************************************************************)
\* What one authorize call went through: the token verdict, the user id, the
\* mapped action and resource, how often the store was queried and what the
\* query gave.
NoFound == [ok |-> TRUE, value |-> <<>>, error |-> ""]

NoCall == [tokenValid |-> FALSE, userId |-> "", actionMapped |-> FALSE,
           action |-> "", resource |-> <<>>, queries |-> 0, found |-> NoFound,
           threw |-> ""]

NoResponse == [decision |-> "", user_id |-> "", reason |-> "",
               matched_permissions |-> <<>>]

\* matchedPermissions.map(p => ({action, resource, effect}))
MapMatched(list) ==
    [k \in 1..Len(list) |-> [action |-> list[k].action,
                             resource |-> list[k].resource,
                             effect |-> list[k].effect]]

\* the catch block of authorize
authorizeCatch(trace, error) ==
    [call |-> [trace EXCEPT !.threw = error],
     response |-> [decision |-> "DENY", user_id |-> "unknown",
                   reason |-> "Authorization check failed due to system error",
                   matched_permissions |-> <<>>]]

\* Mutation: the method and the path are mapped before the token is looked
\* at.
authorizeMapFirst(req, rows) ==
    LET mapped == mapHttpMethodToAction(req.method)
        tokenResult == validateToken(req.access_token)
    IN IF ~mapped.ok
       THEN {authorizeCatch(NoCall, mapped.error)}
       ELSE IF ~tokenResult.valid \/ ~tokenResult.payload
       THEN {[call |-> NoCall,
              response |-> [decision |-> "DENY", user_id |-> "unknown",
                            reason |-> IF tokenResult.error # "" THEN tokenResult.error
                                       ELSE "Invalid token",
                            matched_permissions |-> <<>>]]}
       ELSE LET userId == tokenResult.nickname
                t1 == [NoCall EXCEPT !.tokenValid = TRUE, !.userId = userId]
            IN IF userId = ""
               THEN {[call |-> t1,
                      response |-> [decision |-> "DENY", user_id |-> "unknown",
                                    reason |-> "User not found",
                                    matched_permissions |-> <<>>]]}
               ELSE LET action == mapped.value
                        resource == mapPathToResource(req.path)
                        t2 == [t1 EXCEPT !.actionMapped = TRUE, !.action = action,
                                         !.resource = resource, !.queries = 1]
                    IN {[call |-> [t2 EXCEPT !.found = c.found],
                         response |->
                             [decision |-> IF c.result.allowed THEN "ALLOW" ELSE "DENY",
                              user_id |-> userId,
                              reason |-> c.result.reason,
                              matched_permissions |->
                                  MapMatched(c.result.matchedPermissions)]] :
                          c \in checkPermission(rows, userId, action, resource)}

\* The outcomes of authorize(request) against the table rows: the response
\* together with the record of the call.
authorize(req, rows) ==
    LET tokenResult == validateToken(req.access_token) IN
    IF ~tokenResult.valid \/ ~tokenResult.payload
    THEN {[call |-> NoCall,
           response |-> [decision |-> "DENY", user_id |-> "unknown",
                         reason |-> IF tokenResult.error # "" THEN tokenResult.error
                                    ELSE "Invalid token",
                         matched_permissions |-> <<>>]]}
    ELSE LET userId == tokenResult.nickname
             t1 == [NoCall EXCEPT !.tokenValid = TRUE, !.userId = userId]
         IN IF userId = ""
            THEN {[call |-> t1,
                   response |-> [decision |-> "DENY", user_id |-> "unknown",
                                 reason |-> "User not found",
                                 matched_permissions |-> <<>>]]}
            ELSE LET mapped == mapHttpMethodToAction(req.method) IN
                 IF ~mapped.ok
                 THEN {authorizeCatch(t1, mapped.error)}
                 ELSE LET action == mapped.value
                          resource == mapPathToResource(req.path)
                          t2 == [t1 EXCEPT !.actionMapped = TRUE, !.action = action,
                                           !.resource = resource, !.queries = 1]
                      IN {[call |-> [t2 EXCEPT !.found = c.found],
                           response |->
                               [decision |-> IF c.result.allowed THEN "ALLOW" ELSE "DENY",
                                user_id |-> userId,
                                reason |-> c.result.reason,
                                matched_permissions |->
                                    MapMatched(c.result.matchedPermissions)]] :
                            c \in checkPermission(rows, userId, action, resource)}

(***************************************************************************)
(* The requests and the table contents the behaviours range over.          *)
(***************************************************************************)
\* the segments of the deepest path requested
BaseSegments == <<<<"w">>, <<"1">>, <<"t">>, <<"4">>, <<"x">>, <<"y">>>>

BaseResource(n) == Join(SubSeq(BaseSegments, 1, n), Slash)

ResourcePool == {BaseResource(n) : n \in 1..MaxSegs}

\* "/", "//w/?q", "/w", "/w/1", ...
PathPool ==
    {<<Slash>>, <<Slash, Slash>> \o BaseResource(1) \o <<Slash, "?", "q">>}
      \cup {<<Slash>> \o r : r \in ResourcePool}

MethodPool == {<<"G", "E", "T">>, <<"p", "o", "s", "t">>,
               <<"D", "E", "L", "E", "T", "E">>, <<"T", "R", "A", "C", "E">>}

\* h.1.s and "Bearer h.2.s" verify for u1 and u2, h.n.s has no nickname,
\* h.x.s is expired, h.1 is not a three-piece token
TokenPool == {<<"h", ".", "1", ".", "s">>,
              <<"B", "e", "a", "r", "e", "r", " ", "h", ".", "2", ".", "s">>,
              <<"h", ".", "n", ".", "s">>,
              <<"h", ".", "x", ".", "s">>,
              <<"h", ".", "1">>}

\* the token of u1
UserToken == <<"h", ".", "1", ".", "s">>

\* every token with every method on the root path, and u1's token with
\* every method on every path
RequestPool ==
    [access_token : TokenPool, method : MethodPool, path : {<<Slash>>}]
      \cup [access_token : {UserToken}, method : MethodPool, path : PathPool]

Effects == {"allow", "deny"}

\* every pattern the deepest resource generates, and w/*/* that no resource
\* generates
PatternPool ==
    Range(generateResourcePatterns(BaseResource(MaxSegs)))
      \cup {<<"w", Slash, "*", Slash, "*">>}

\* rows of u1 for read on every pattern, rows of another user on the global
\* pattern, rows of u1 for write on the top-level resource and a global
\* delete grant
RowPool ==
    [user_id : {"u1"}, action : {"read"}, resource : PatternPool, effect : Effects]
      \cup [user_id : {"u2"}, action : {"read"}, resource : {Star}, effect : Effects]
      \cup [user_id : {"u1"}, action : {"write"},
            resource : {BaseResource(1)}, effect : Effects]
      \cup [user_id : {"u1"}, action : {"delete"}, resource : {Star}, effect : {"allow"}]

RECURSIVE SubsetsUpTo(_, _)
SubsetsUpTo(S, k) ==
    IF k = 0 THEN {{}}
    ELSE LET smaller == SubsetsUpTo(S, k - 1)
         IN smaller \cup {T \cup {x} : T \in smaller, x \in S}

NoRequest == [access_token |-> <<>>, method |-> <<>>, path |-> <<>>]

(***************************************************************************)
(* controllers/authController.ts                                           *)
(***************************************************************************)
\* How the awaited authorizationService.authorize(request) settled.
Resolved(r) == [resolved |-> TRUE, response |-> r, error |-> ""]
Rejected(e) == [resolved |-> FALSE, response |-> NoResponse, error |-> e]

\* What AuthController.authorize sends: the status and the JSON body.
NoSent == [status |-> 0, body |-> NoResponse]

\* Mutation: every settled call is answered with 200.
AuthControllerAuthorizeAlways200(outcome) ==
    IF outcome.resolved
    THEN [status |-> 200, body |-> outcome.response]
    ELSE [status |-> 500,
          body |-> [decision |-> "DENY", user_id |-> "unknown",
                    reason |-> "Internal server error",
                    matched_permissions |-> <<>>]]

AuthControllerAuthorize(outcome) ==
    IF outcome.resolved
    THEN [status |-> IF outcome.response.decision = "ALLOW" THEN 200 ELSE 403,
          body |-> outcome.response]
    ELSE [status |-> 500,
          body |-> [decision |-> "DENY", user_id |-> "unknown",
                    reason |-> "Internal server error",
                    matched_permissions |-> <<>>]]

\* A direct call of one function (as the unit tests make them): its name,
\* its arguments and, once it returned, what it returned.
NoFn == [name |-> "", resource |-> <<>>, pattern |-> <<>>, method |-> <<>>,
         path |-> <<>>, outcome |-> Resolved(NoResponse),
         returned |-> FALSE, patterns |-> <<>>, score |-> <<>>,
         mapped |-> Ok(""), resourceOut |-> <<>>, sent |-> NoSent]

\* The local variables of one authorize call in flight: where it is waiting,
\* its request, the token it verifies, what it found out so far (as in
\* NoCall) and its response.
NoLocals == [pc |-> "idle", request |-> NoRequest, cleanToken |-> <<>>,
             trace |-> NoCall, response |-> NoResponse]

NoInflight == [i \in 1..MaxCalls |-> NoLocals]

(***************************************************************************)
(* The state machine: the table is whatever the store holds; a request is  *)
(* authorized against it and the controller sends the response.            *)
(***************************************************************************)
Init ==
    /\ store \in SubsetsUpTo(RowPool, MaxRows)
    /\ pc = "idle"
    /\ request = NoRequest
    /\ call = NoCall
    /\ response = NoResponse
    /\ fn = NoFn
    /\ inflight = NoInflight

\* POST /authorize: authorizationService.authorize(req.body)
Authorize(req) ==
    /\ pc = "idle"
    /\ \E out \in authorize(req, store) :
          /\ call' = out.call
          /\ response' = out.response
    /\ request' = req
    /\ pc' = "decided"
    /\ UNCHANGED <<store, fn, inflight>>

\* res.status(statusCode).json(response): the request is over
Respond ==
    /\ pc = "decided"
    /\ pc' = "idle"
    /\ request' = NoRequest
    /\ call' = NoCall
    /\ response' = NoResponse
    /\ UNCHANGED <<store, fn, inflight>>

Next ==
    \/ \E req \in RequestPool : Authorize(req)
    \/ Respond

Spec == Init /\ [][Next]_vars

(***************************************************************************)
(* Direct calls of the pathMapper functions and of the controller (with a  *)
(* stubbed service), as the tests make them:                               *)
(* the arguments are drawn in the initial state and the call returns.      *)
(***************************************************************************)
\* a segment two asterisks long: a literal to split('/'), two wildcards to
\* the scorer's match(/\*/g)
StarStar == <<"*", "*">>

\* what the segment at position i (1-based) of an argument resource may be
FnSegmentsAt(i) == {BaseSegments[i], Star, StarStar}

RECURSIVE FnSegmentLists(_)
FnSegmentLists(n) ==
    IF n = 0 THEN {<<>>}
    ELSE {Append(p, seg) : p \in FnSegmentLists(n - 1), seg \in FnSegmentsAt(n)}

FnResources ==
    {Join(p, Slash) : p \in UNION {FnSegmentLists(n) : n \in 1..MaxFnSegs}}

\* patterns scored against every resource, whether they match it or not
FnOtherPatterns == {Join(p, Slash) : p \in FnSegmentLists(1) \cup FnSegmentLists(2)}

FnPatternsFor(resource) ==
    Range(generateResourcePatterns(resource)) \cup FnOtherPatterns

LowerChar(c) ==
    CASE c = "A" -> "a" [] c = "C" -> "c" [] c = "D" -> "d" [] c = "E" -> "e"
      [] c = "G" -> "g" [] c = "H" -> "h" [] c = "L" -> "l" [] c = "O" -> "o"
      [] c = "P" -> "p" [] c = "R" -> "r" [] c = "S" -> "s" [] c = "T" -> "t"
      [] c = "U" -> "u" [] OTHER -> c

\* every spelling of a word in upper and lower case letters
RECURSIVE CaseVariants(_)
CaseVariants(word) ==
    IF word = <<>> THEN {<<>>}
    ELSE {<<c>> \o rest : c \in {Head(word), LowerChar(Head(word))},
                          rest \in CaseVariants(Tail(word))}

FnMethodWords ==
    {<<"G", "E", "T">>, <<"P", "O", "S", "T">>, <<"P", "U", "T">>,
     <<"P", "A", "T", "C", "H">>, <<"D", "E", "L", "E", "T", "E">>,
     <<"H", "E", "A", "D">>, <<"T", "R", "A", "C", "E">>,
     <<"G", "E", "T", "S">>, <<"G", "E">>, <<"G", "E", "T", " ">>, <<>>}

FnMethods == UNION {CaseVariants(w) : w \in FnMethodWords}

PathAlphabet == {"/", "?", "w", "*"}

RECURSIVE StringsOfLen(_, _)
StringsOfLen(alphabet, n) ==
    IF n = 0 THEN {<<>>}
    ELSE {Append(str, c) : str \in StringsOfLen(alphabet, n - 1), c \in alphabet}

FnPaths == UNION {StringsOfLen(PathAlphabet, n) : n \in 0..MaxPathLen}

\* how the service the controller awaits may settle: with a response
\* authorize gives for a request against a table of at most one row, or
\* rejected as the stubbed service of the controller tests is
FnServiceOutcomes ==
    {Resolved(out.response) :
        out \in UNION {authorize(req, rows) :
                          req \in RequestPool, rows \in SubsetsUpTo(RowPool, 1)}}
    \cup {Rejected(e) : e \in {"Database connection failed"}}

FnCalls ==
    {[NoFn EXCEPT !.name = "generateResourcePatterns", !.resource = r] :
        r \in FnResources}
    \cup UNION {{[NoFn EXCEPT !.name = "calculateSpecificityScore",
                              !.resource = r, !.pattern = p] :
                    p \in FnPatternsFor(r)} : r \in FnResources}
    \cup {[NoFn EXCEPT !.name = "mapHttpMethodToAction", !.method = m] :
            m \in FnMethods}
    \cup {[NoFn EXCEPT !.name = "mapPathToResource", !.path = path] :
            path \in FnPaths}
    \cup {[NoFn EXCEPT !.name = "AuthController.authorize", !.outcome = o] :
            o \in FnServiceOutcomes}

FnInit ==
    /\ store = {}
    /\ pc = "idle"
    /\ request = NoRequest
    /\ call = NoCall
    /\ response = NoResponse
    /\ fn \in FnCalls
    /\ inflight = NoInflight

\* generateResourcePatterns(resource)
CallGenerateResourcePatterns ==
    /\ fn.name = "generateResourcePatterns" /\ ~fn.returned
    /\ fn' = [fn EXCEPT !.returned = TRUE,
                        !.patterns = generateResourcePatterns(fn.resource)]
    /\ UNCHANGED <<store, pc, request, call, response, inflight>>

\* calculateSpecificityScore(resource, matchedResource)
CallCalculateSpecificityScore ==
    /\ fn.name = "calculateSpecificityScore" /\ ~fn.returned
    /\ fn' = [fn EXCEPT !.returned = TRUE,
                        !.score = calculateSpecificityScore(fn.resource, fn.pattern)]
    /\ UNCHANGED <<store, pc, request, call, response, inflight>>

\* mapHttpMethodToAction(method): the action, or the Error thrown
CallMapHttpMethodToAction ==
    /\ fn.name = "mapHttpMethodToAction" /\ ~fn.returned
    /\ fn' = [fn EXCEPT !.returned = TRUE,
                        !.mapped = mapHttpMethodToAction(fn.method)]
    /\ UNCHANGED <<store, pc, request, call, response, inflight>>

\* mapPathToResource(path)
CallMapPathToResource ==
    /\ fn.name = "mapPathToResource" /\ ~fn.returned
    /\ fn' = [fn EXCEPT !.returned = TRUE,
                        !.resourceOut = mapPathToResource(fn.path)]
    /\ UNCHANGED <<store, pc, request, call, response, inflight>>

\* AuthController.authorize(req, res) once the awaited service call settled
CallAuthControllerAuthorize ==
    /\ fn.name = "AuthController.authorize" /\ ~fn.returned
    /\ fn' = [fn EXCEPT !.returned = TRUE,
                        !.sent = AuthControllerAuthorize(fn.outcome)]
    /\ UNCHANGED <<store, pc, request, call, response, inflight>>

FnNext ==
    \/ CallGenerateResourcePatterns
    \/ CallCalculateSpecificityScore
    \/ CallMapHttpMethodToAction
    \/ CallMapPathToResource
    \/ CallAuthControllerAuthorize

SpecFn == FnInit /\ [][FnNext]_vars

(***************************************************************************)
(* Several authorize calls in flight on the one AuthorizationService: a    *)
(* call runs until its next await, and any call whose awaited promise      *)
(* settled may run next.  The table does not change.                       *)
(***************************************************************************)
ConcRequests ==
    {r \in RequestPool :
        /\ r.path = <<Slash>> \/ r.path = <<Slash>> \o BaseResource(2)
        /\ r.method = <<"G", "E", "T">>
             \/ (r.method = <<"T", "R", "A", "C", "E">> /\ r.path = <<Slash>>
                   /\ r.access_token = UserToken)}

ConcRowPool ==
    {[user_id |-> "u1", action |-> "read", resource |-> BaseResource(2),
      effect |-> "allow"],
     [user_id |-> "u1", action |-> "read",
      resource |-> BaseResource(1) \o <<Slash, "*">>, effect |-> "deny"],
     [user_id |-> "u1", action |-> "read", resource |-> Star, effect |-> "allow"],
     [user_id |-> "u2", action |-> "read", resource |-> Star, effect |-> "allow"]}

Denied(userId, reason) ==
    [decision |-> "DENY", user_id |-> userId, reason |-> reason,
     matched_permissions |-> <<>>]

\* Mutation: the variables are kept in a field of the service that the first
\* call set; once it started, every call reads that field.
LocalsOfFirst(calls, i) == IF calls[1].pc = "idle" THEN calls[i] ELSE calls[1]

\* the variables of call i's own activation of authorize
LocalsOf(calls, i) == calls[i]

ConcInit ==
    /\ store \in SubsetsUpTo(ConcRowPool, MaxRows)
    /\ pc = "idle"
    /\ request = NoRequest
    /\ call = NoCall
    /\ response = NoResponse
    /\ fn = NoFn
    /\ inflight = NoInflight

\* authorize(request) is called: validateToken strips the prefix, checks the
\* format and awaits jwtVerify
StartAuthorize(i, req) ==
    /\ inflight[i].pc = "idle"
    /\ LET cleanToken == StripBearer(req.access_token)
           started == [NoLocals EXCEPT !.request = req, !.cleanToken = cleanToken]
       IN inflight' = [inflight EXCEPT ![i] =
              IF Len(Split(cleanToken, ".")) # 3
              THEN [started EXCEPT !.pc = "done",
                                   !.response = Denied("unknown", "Invalid token format")]
              ELSE [started EXCEPT !.pc = "jwtVerify"]]
    /\ UNCHANGED <<store, pc, request, call, response, fn>>

\* jwtVerify settled: validateToken awaits the userinfo document, or returns
\* the failure and authorize denies
JwtVerified(i) ==
    /\ inflight[i].pc = "jwtVerify"
    /\ LET l == LocalsOf(inflight, i)
           verified == jwtVerify(l.cleanToken)
       IN inflight' = [inflight EXCEPT ![i] =
              IF ~verified.ok
              THEN [inflight[i] EXCEPT !.pc = "done",
                             !.response =
                                 Denied("unknown", "Auth0 token validation failed: "
                                                      \o verified.error)]
              ELSE [inflight[i] EXCEPT !.pc = "userInfo"]]
    /\ UNCHANGED <<store, pc, request, call, response, fn>>

\* the userinfo document arrived: validateToken returns, authorize takes the
\* nickname, maps method and path and calls checkPermission, which runs the
\* query and awaits its result
UserInfoReceived(i) ==
    /\ inflight[i].pc = "userInfo"
    /\ LET l == LocalsOf(inflight, i)
           userInfo == userInfoGet(l.cleanToken)
           userId == userInfo.nickname
           t1 == [NoCall EXCEPT !.tokenValid = TRUE, !.userId = userId]
           mapped == mapHttpMethodToAction(l.request.method)
           resource == mapPathToResource(l.request.path)
       IN IF ~userInfo.data
          THEN inflight' = [inflight EXCEPT ![i] =
                  [inflight[i] EXCEPT !.pc = "done",
                            !.response = Denied("unknown",
                                                "User ID not found in Auth0 token")]]
          ELSE IF userId = ""
          THEN inflight' = [inflight EXCEPT ![i] =
                  [inflight[i] EXCEPT !.pc = "done", !.trace = t1,
                            !.response = Denied("unknown", "User not found")]]
          ELSE IF ~mapped.ok
          THEN inflight' = [inflight EXCEPT ![i] =
                  [inflight[i] EXCEPT !.pc = "done",
                            !.trace = authorizeCatch(t1, mapped.error).call,
                            !.response = authorizeCatch(t1, mapped.error).response]]
          ELSE \E found \in findPermissionsWithWildcards(store, userId,
                                                         mapped.value, resource) :
                  inflight' = [inflight EXCEPT ![i] =
                      [inflight[i] EXCEPT !.pc = "checkPermission",
                                !.trace = [t1 EXCEPT !.actionMapped = TRUE,
                                                     !.action = mapped.value,
                                                     !.resource = resource,
                                                     !.queries = 1,
                                                     !.found = found]]]
    /\ UNCHANGED <<store, pc, request, call, response, fn>>

\* the query settled: checkPermission resolves the list (or catches the
\* error) and authorize builds its response
PermissionChecked(i) ==
    /\ inflight[i].pc = "checkPermission"
    /\ LET l == LocalsOf(inflight, i)
           result == checkPermissionOn(l.trace.found, l.trace.action, l.trace.resource)
       IN inflight' = [inflight EXCEPT ![i] =
              [inflight[i] EXCEPT
                  !.pc = "done",
                  !.response =
                      [decision |-> IF result.allowed THEN "ALLOW" ELSE "DENY",
                       user_id |-> l.trace.userId,
                       reason |-> result.reason,
                       matched_permissions |-> MapMatched(result.matchedPermissions)]]]
    /\ UNCHANGED <<store, pc, request, call, response, fn>>

ConcNext ==
    \E i \in 1..MaxCalls :
        \/ \E req \in ConcRequests : StartAuthorize(i, req)
        \/ JwtVerified(i)
        \/ UserInfoReceived(i)
        \/ PermissionChecked(i)

SpecConc == ConcInit /\ [][ConcNext]_vars

(***************************************************************************)
(* Properties.  The request's user, action, resource and candidate rows    *)
(* are recomputed here from the request and the table.                     *)
(***************************************************************************)
Decided == pc = "decided"

ReqToken == validateToken(request.access_token)
ReqTokenOk == LET t == ReqToken IN t.valid /\ t.payload
ReqUser == ReqToken.nickname
ReqMapped == mapHttpMethodToAction(request.method)
ReqAction == ReqMapped.value
ReqResource == mapPathToResource(request.path)

\* the call got as far as the store query
Queried ==
    /\ Decided
    /\ LET t == ReqToken IN t.valid /\ t.payload /\ t.nickname # ""
    /\ ReqMapped.ok

\* the store query returned
QueryOk == Queried /\ call.found.ok

\* the rows the request is about
Candidates ==
    LET user == ReqUser
        action == ReqAction
        patterns == Range(generateResourcePatterns(ReqResource))
    IN {r \in store : /\ r.user_id = user
                      /\ r.action = action
                      /\ r.resource \in patterns}

CandidatesOf(effect) == {r \in Candidates : r.effect = effect}

ScoreOf(r) == calculateSpecificityScore(ReqResource, r.resource)

\* x < y for score components, -Infinity below every finite number
NumLess(x, y) ==
    \/ x.k = "-inf" /\ y.k = "fin"
    \/ x.k = "fin" /\ y.k = "fin" /\ x.v < y.v

\* lexicographic order on score triples
ScoreLess(s, t) ==
    \/ NumLess(s[1], t[1])
    \/ s[1] = t[1] /\ NumLess(s[2], t[2])
    \/ s[1] = t[1] /\ s[2] = t[2] /\ NumLess(s[3], t[3])

\* r has the highest score among the rows of S
TopOf(r, S) ==
    LET top == ScoreOf(r) IN r \in S /\ \A o \in S : ~ScoreLess(top, ScoreOf(o))

\* the response names exactly one matched permission, the row r
MatchedIs(r) ==
    /\ Len(response.matched_permissions) = 1
    /\ response.matched_permissions[1] = SqlSelect(r)

SystemErrorReasons == {"Permission check failed due to system error",
                       "Authorization check failed due to system error"}

\* C1: authorize answers ALLOW only if the token validated, a non-empty user
\* id was resolved, the method mapped to an action and the store query
\* returned without error at least one record; every decision is ALLOW or
\* DENY, and a failure at any of these steps gives DENY.
C1_FailSecure ==
    Decided =>
        /\ response.decision \in {"ALLOW", "DENY"}
        /\ response.decision = "ALLOW" =>
               /\ ReqTokenOk
               /\ ReqUser # ""
               /\ ReqMapped.ok
               /\ call.queries = 1
               /\ call.found.ok
               /\ Len(call.found.value) >= 1
               /\ Candidates # {}
               /\ call.threw = ""

C1_Witness == Decided /\ response.decision = "ALLOW"

\* C2: when the token validated and gave a user id and the store query then
\* threw, the decision is DENY for that user id, with no matched permission
\* and the one fixed system-error reason, whatever the error was.
C2_StoreErrorDeny ==
    (Queried /\ ~call.found.ok) =>
        /\ response.decision = "DENY"
        /\ response.user_id = ReqUser
        /\ response.user_id # "unknown"
        /\ response.matched_permissions = <<>>
        /\ response.reason = "Permission check failed due to system error"

C2_Witness ==
    /\ Queried
    /\ ~call.found.ok
    /\ call.found.error = "SQLITE_CORRUPT: malformed"
    /\ Candidates # {}
    /\ response.user_id = "u2"

C4_MoreSpecificWins ==
    LET all == Candidates IN
    (QueryOk /\ \E a, d \in all : a.effect = "allow" /\ d.effect = "deny") =>
        (response.decision = "DENY" <=>
            \E d \in all : d.effect = "deny" /\ TopOf(d, all))

\* C5: deny breaks ties: an allow record and a deny record with equal score
\* triples among the candidates give DENY, and the one matched permission is
\* a deny record.
C5_DenyBreaksTies ==
    LET all == Candidates IN
    (QueryOk /\ \E a, d \in all : /\ a.effect = "allow"
                                   /\ d.effect = "deny"
                                   /\ areScoresEqual(ScoreOf(a), ScoreOf(d))) =>
        /\ response.decision = "DENY"
        /\ Len(response.matched_permissions) = 1
        /\ response.matched_permissions[1].effect = "deny"

\* allow and deny both on the global pattern, for a resource two levels down
C5_Witness ==
    /\ QueryOk
    /\ ReqResource = BaseResource(2)
    /\ {r.resource : r \in CandidatesOf("allow")} = {Star}
    /\ {r.resource : r \in CandidatesOf("deny")} = {Star}
    /\ ScoreOf([resource |-> Star])[3] = NegInfinity
    /\ response.decision = "DENY"

\* C6: default deny: when the store holds no record for the request's user
\* and action on a generated pattern, the decision is DENY with no matched
\* permission and the reason "No permissions found for <action> on
\* <resource>", which is not a system-error reason.
C6_DefaultDeny ==
    (QueryOk /\ Candidates = {}) =>
        /\ response.decision = "DENY"
        /\ response.matched_permissions = <<>>
        /\ response.reason =
               "No permissions found for " \o ReqAction \o " on " \o StrOf(ReqResource)
        /\ response.reason \notin SystemErrorReasons

C6_Witness ==
    /\ QueryOk
    /\ Candidates = {}
    /\ Cardinality(store) = MaxRows
    /\ response.reason = "No permissions found for write on w/1"

PrefixStarOf(segments, i) == Join(SubSeq(segments, 1, i), Slash) \o <<Slash, "*">>

PrefixStar(i) == PrefixStarOf(Split(ReqResource, Slash), i)

C9_Isolation ==
    LET alone == authorize(request, Candidates) IN
    Decided =>
        /\ authorize(request, store) = alone
        /\ [call |-> call, response |-> response] \in alone

\* a read allow on the requested resource does not grant write
C9_Witness ==
    /\ QueryOk
    /\ ReqAction = "write"
    /\ \E r \in store : /\ r.user_id = ReqUser
                        /\ r.action = "read"
                        /\ r.resource = ReqResource
                        /\ r.effect = "allow"
    /\ \E r \in store : r.user_id # ReqUser /\ r.effect = "allow"
    /\ response.decision = "DENY"
    /\ response.matched_permissions = <<>>

\* C10: user_id is "unknown" only if the token did not validate or gave no
\* user id; a resolved user id is the decision's user_id, also when a later
\* step of the call throws.
C10_UserIdKept ==
    Decided =>
        /\ response.user_id = "unknown" => (~ReqTokenOk \/ ReqUser = "")
        /\ (ReqTokenOk /\ ReqUser # "") => response.user_id = ReqUser

\* C11: matched_permissions of a decision has exactly one element whenever
\* the store returned a non-empty candidate list and is empty otherwise
\* (also when the call never got a list); the element is one of the
\* candidates, so with several candidates it is never all of them, and its
\* effect is allow exactly when the decision is ALLOW.
C11_MatchedSingle ==
    Decided =>
        LET m == response.matched_permissions
            candidates == IF QueryOk THEN Candidates ELSE {}
        IN IF candidates # {}
           THEN /\ Len(m) = 1
                /\ m[1] \in {SqlSelect(r) : r \in candidates}
                /\ Len(call.found.value) = Cardinality(candidates)
                /\ (m[1].effect = "allow") <=> (response.decision = "ALLOW")
                /\ m[1].effect \in Effects
           ELSE m = <<>>

\* two candidates, an allow and a deny, and one of them reported
C11_Witness ==
    /\ QueryOk
    /\ CandidatesOf("allow") # {} /\ CandidatesOf("deny") # {}
    /\ Len(response.matched_permissions) = 1
    /\ Len(call.found.value) = 2
(***************************************************************************)
(* Properties of the direct calls.                                         *)
(***************************************************************************)
PatternsReturned == fn.name = "generateResourcePatterns" /\ fn.returned
ScoreReturned == fn.name = "calculateSpecificityScore" /\ fn.returned
MethodReturned == fn.name = "mapHttpMethodToAction" /\ fn.returned

\* the patterns the rules of the pattern generator list for a resource with
\* segments s[0..n-1] (s[k] is segs[k + 1] below)
ExpectedPatterns(resource) ==
    LET segs == Split(resource, Slash)
        n == Len(segs)
    IN {resource}
       \cup {PrefixStarOf(segs, i) : i \in 1..(n - 1)}
       \cup (IF n >= 3 THEN {segs[1] \o <<Slash, "*", Slash>> \o segs[n]} ELSE {})
       \cup (IF n > 3
             THEN {Join([k \in 1..n |-> IF k = i + 1 THEN Star ELSE segs[k]], Slash) :
                      i \in 1..(n - 2)}
             ELSE {})
       \cup (IF n >= 4
             THEN {Join(SubSeq(segs, 1, i) \o <<Star>> \o SubSeq(segs, i + 2, n - 1)
                          \o <<Star>>, Slash) : i \in 1..(n - 3)}
             ELSE {})
       \cup {Star}

C13_PatternList ==
    PatternsReturned =>
        LET l == fn.patterns IN
        /\ fn.resource \in Range(l)
        /\ Star \in Range(l)
        /\ \A i, j \in 1..Len(l) : l[i] = l[j] => i = j
        /\ l[1] = fn.resource
        /\ l[Len(l)] = Star

\* a resource whose own last segment is the wildcard: the parent pattern and
\* the resource are the same string
C13_Witness ==
    /\ PatternsReturned
    /\ fn.resource = BaseResource(1) \o <<Slash, "*">>
    /\ fn.patterns = <<fn.resource, Star>>

\* C14: the global wildcard scores (0, 0, -Infinity) against every resource,
\* the resource * included.
C14_GlobalScore ==
    (ScoreReturned /\ fn.pattern = Star) =>
        fn.score = <<Fin(0), Fin(0), NegInfinity>>

C14_Witness ==
    /\ ScoreReturned
    /\ fn.pattern = Star /\ fn.resource = Star
    /\ fn.score[3] = NegInfinity

\* the pattern scored is one generateResourcePatterns lists for the resource
PatternGenerated == fn.pattern \in Range(generateResourcePatterns(fn.resource))

\* C15: the score of a resource against itself is lexicographically strictly
\* greater than its score against any other pattern generated for it.
C15_ExactDominates ==
    (ScoreReturned /\ PatternGenerated /\ fn.pattern # fn.resource) =>
        ScoreLess(fn.score, calculateSpecificityScore(fn.resource, fn.resource))

\* w/1/t scored against its parent pattern w/1/*
C15_Witness ==
    /\ ScoreReturned /\ PatternGenerated
    /\ fn.resource = BaseResource(3)
    /\ fn.pattern = PrefixStarOf(Split(fn.resource, Slash), 2)
    /\ fn.score = <<Fin(0), Fin(2), Fin(0 - 1)>>

\* C16: every generated pattern other than the global wildcard scores
\* lexicographically strictly above the global wildcard.
C16_GlobalLast ==
    (ScoreReturned /\ PatternGenerated /\ fn.pattern # Star) =>
        ScoreLess(calculateSpecificityScore(fn.resource, Star), fn.score)

\* the segments of a pattern that are not the wildcard token, and those that
\* are
LiteralSegments(pattern) ==
    LET segs == Split(pattern, Slash) IN
    Cardinality({i \in 1..Len(segs) : segs[i] # Star})

WildcardSegments(pattern) ==
    LET segs == Split(pattern, Slash) IN
    Cardinality({i \in 1..Len(segs) : segs[i] = Star})

\* C17: of two non-exact patterns generated for a resource, the one with
\* strictly more literal segments and no more wildcard segments scores
\* strictly higher, on the second component; along the chain of
\* trailing-wildcard patterns the score strictly increases with the length
\* of the prefix.
C17_Monotone ==
    (ScoreReturned /\ PatternGenerated /\ fn.pattern # fn.resource) =>
        LET segs == Split(fn.resource, Slash)
            others == Range(generateResourcePatterns(fn.resource)) \ {fn.resource}
        IN /\ \A p2 \in others :
                 (/\ LiteralSegments(fn.pattern) > LiteralSegments(p2)
                  /\ WildcardSegments(fn.pattern) <= WildcardSegments(p2))
                 => LET s2 == calculateSpecificityScore(fn.resource, p2) IN
                    /\ ScoreLess(s2, fn.score)
                    /\ s2[1] = fn.score[1]
                    /\ NumLess(s2[2], fn.score[2])
           /\ \A i, j \in 1..(Len(segs) - 1) :
                 (i < j /\ fn.pattern = PrefixStarOf(segs, j))
                 => ScoreLess(calculateSpecificityScore(fn.resource,
                                                        PrefixStarOf(segs, i)),
                              fn.score)

\* C18: for every pattern but the global wildcard the second component is
\* the number of segments that are not the token *, the third the negated
\* number of segments that are the token *; so the second is not negative
\* and the two counts add up to the number of segments.
C18_PerSegment ==
    (ScoreReturned /\ fn.pattern # Star) =>
        LET segs == Split(fn.pattern, Slash)
            wildcards == WildcardSegments(fn.pattern)
            specificity == LiteralSegments(fn.pattern)
        IN /\ fn.score[2] = Fin(specificity)
           /\ fn.score[3] = Fin(0 - wildcards)
           /\ fn.score[2].v >= 0
           /\ fn.score[2].v - fn.score[3].v = Len(segs)

\* C19: the first component is 1 if and only if the pattern is the same
\* string as the resource, and 0 otherwise.
C19_Exactness ==
    ScoreReturned =>
        fn.score[1] = Fin(IF fn.pattern = fn.resource THEN 1 ELSE 0)

\* C19, amended: for a pattern other than the global wildcard the first
\* component is 1 if and only if the pattern is the same string as the
\* resource; for the global wildcard it is 0, also when the resource is *.
C19_ExactnessButGlobal ==
    ScoreReturned =>
        fn.score[1] = Fin(IF fn.pattern = fn.resource /\ fn.pattern # Star
                          THEN 1 ELSE 0)

\* a resource scored against itself, and the exact match seen
C19_Witness ==
    /\ ScoreReturned
    /\ fn.pattern = fn.resource /\ fn.pattern = BaseResource(2)
    /\ fn.score[1] = Fin(1)

\* the method is the word, letter by letter, in either case
SpellsWord(method, upper, lower) ==
    /\ Len(method) = Len(upper)
    /\ \A i \in 1..Len(method) : method[i] \in {upper[i], lower[i]}

IsGet(m) == SpellsWord(m, <<"G", "E", "T">>, <<"g", "e", "t">>)
IsPost(m) == SpellsWord(m, <<"P", "O", "S", "T">>, <<"p", "o", "s", "t">>)
IsPut(m) == SpellsWord(m, <<"P", "U", "T">>, <<"p", "u", "t">>)
IsPatch(m) == SpellsWord(m, <<"P", "A", "T", "C", "H">>, <<"p", "a", "t", "c", "h">>)
IsDelete(m) ==
    SpellsWord(m, <<"D", "E", "L", "E", "T", "E">>, <<"d", "e", "l", "e", "t", "e">>)

\* C20: in any mix of cases GET maps to read, POST, PUT and PATCH to write
\* and DELETE to delete; any other method string gives no action but an
\* Error whose message ends with the method as it was passed in.
C20_MethodMapping ==
    MethodReturned =>
        LET m == fn.method IN
        IF IsGet(m) THEN fn.mapped = Ok("read")
        ELSE IF IsPost(m) \/ IsPut(m) \/ IsPatch(m) THEN fn.mapped = Ok("write")
        ELSE IF IsDelete(m) THEN fn.mapped = Ok("delete")
        ELSE /\ ~fn.mapped.ok
             /\ fn.mapped.value = ""
             /\ fn.mapped.error = "Unsupported HTTP method: " \o StrOf(m)

\* an unsupported method in mixed case, named as passed
C20_Witness ==
    /\ MethodReturned
    /\ fn.method = <<"T", "r", "a", "c", "e">>
    /\ fn.mapped.error = "Unsupported HTTP method: Trace"
PathReturned == fn.name = "mapPathToResource" /\ fn.returned

\* the path up to its first ? with the slashes at both ends taken off, or
\* the empty string when nothing but slashes is left
TrimmedPath(path) ==
    LET marks == {i \in 1..Len(path) : path[i] = "?"}
        end == IF marks = {} THEN Len(path)
               ELSE (CHOOSE i \in marks : \A j \in marks : i <= j) - 1
        kept == {i \in 1..end : path[i] # Slash}
    IN IF kept = {} THEN <<>>
       ELSE SubSeq(path, CHOOSE i \in kept : \A j \in kept : i <= j,
                         CHOOSE i \in kept : \A j \in kept : j <= i)

\* C21: mapPathToResource returns the path without its leading slashes, its
\* query (everything from the first ?) and its trailing slashes, or * when
\* nothing is left; the result is not empty, does not start or end with a
\* slash, holds no ? and is otherwise a run of the path's own characters.
C21_PathMapping ==
    PathReturned =>
        LET r == fn.resourceOut
            t == TrimmedPath(fn.path)
        IN /\ r = (IF t = <<>> THEN Star ELSE t)
           /\ r # <<>>
           /\ r[1] # Slash /\ r[Len(r)] # Slash
           /\ \A i \in 1..Len(r) : r[i] # "?"
           /\ \/ r = Star
              \/ \E from \in 1..Len(fn.path) :
                    r = SubSeq(fn.path, from, from + Len(r) - 1)

\* /w/?w: a leading slash, a trailing slash and a query, all taken off
C21_Witness ==
    /\ PathReturned
    /\ fn.path = <<"/", "w", "/", "?", "w">>
    /\ fn.resourceOut = <<"w">>
\* the method is none of the five supported words in any mix of cases
UnsupportedMethod(m) ==
    ~(IsGet(m) \/ IsPost(m) \/ IsPut(m) \/ IsPatch(m) \/ IsDelete(m))

\* C22: for a request whose method is none of GET, POST, PUT, PATCH, DELETE
\* (in any case) authorize returns no ALLOW or DENY decision; the failure is
\* a request-validation failure of the caller.
C22_NotADecision ==
    (Decided /\ UnsupportedMethod(request.method)) =>
        response.decision \notin {"ALLOW", "DENY"}

ControllerReturned == fn.name = "AuthController.authorize" /\ fn.returned

\* C23: the controller answers 200 exactly when the service returned ALLOW,
\* 403 when it returned DENY, in both cases with the service's response as
\* body, and 500 with the body DENY / unknown / Internal server error when
\* the service call rejected; no 200 carries a DENY.
C23_StatusCodes ==
    ControllerReturned =>
        LET o == fn.outcome
            sent == fn.sent
        IN /\ (sent.status = 200) <=> (o.resolved /\ o.response.decision = "ALLOW")
           /\ (o.resolved /\ o.response.decision = "DENY") => sent.status = 403
           /\ o.resolved => sent.body = o.response
           /\ ~o.resolved =>
                 /\ sent.status = 500
                 /\ sent.body = [decision |-> "DENY", user_id |-> "unknown",
                                 reason |-> "Internal server error",
                                 matched_permissions |-> <<>>]
           /\ sent.status = 200 => sent.body.decision # "DENY"
           /\ sent.status \in {200, 403, 500}

\* the service call rejected and 500 was sent
C23_Witness ==
    /\ ControllerReturned
    /\ ~fn.outcome.resolved
    /\ fn.sent.status = 500

SingleSegment(resource) == \A i \in 1..Len(resource) : resource[i] # Slash

\* C25: for every resource of a single segment, the resource * included,
\* generateResourcePatterns returns exactly two patterns, the resource and *.
C25_SingleSegment ==
    (PatternsReturned /\ SingleSegment(fn.resource)) =>
        /\ Len(fn.patterns) = 2
        /\ fn.patterns = <<fn.resource, Star>>

\* C25, amended: for every resource of a single segment other than *,
\* generateResourcePatterns returns exactly the resource and *; for the
\* resource * it returns the one pattern *.
C25_SingleSegmentButGlobal ==
    (PatternsReturned /\ SingleSegment(fn.resource)) =>
        fn.patterns = (IF fn.resource = Star THEN <<Star>> ELSE <<fn.resource, Star>>)

C25_Witness ==
    /\ PatternsReturned
    /\ fn.resource = BaseResource(1)
    /\ Len(fn.patterns) = 2

C27_StepOrder ==
    Decided =>
        LET t == ReqToken
            tokenOk == t.valid /\ t.payload
        IN /\ call.queries \in {0, 1}
           /\ call.queries = 1 <=> (tokenOk /\ t.nickname # "" /\ ReqMapped.ok)
           /\ call.queries = 1 => (call.tokenValid /\ call.userId # "" /\ call.actionMapped)
           /\ call.actionMapped => (call.tokenValid /\ call.userId # "")
           /\ call.userId # "" => call.tokenValid
           /\ ~tokenOk =>
                 /\ response.decision = "DENY"
                 /\ response.reason = (IF t.error # "" THEN t.error ELSE "Invalid token")
           /\ (tokenOk /\ t.nickname = "") => response.reason = "User not found"

\* an invalid token together with an unsupported method
C27_Witness ==
    /\ Decided
    /\ ~ReqTokenOk
    /\ UnsupportedMethod(request.method)
    /\ call.queries = 0
    /\ response.reason \notin SystemErrorReasons

\* C29: every pattern generated for a resource R that ends in /* is also
\* generated for R/x, whatever the further segment x is (stated for the
\* child R/x whose patterns were returned and its parent R).
C29_ParentApplies ==
    (PatternsReturned /\ ~SingleSegment(fn.resource)) =>
        LET segs == Split(fn.resource, Slash)
            parent == Join(SubSeq(segs, 1, Len(segs) - 1), Slash)
        IN \A p \in Range(generateResourcePatterns(parent)) :
              (Len(p) >= 2 /\ SubSeq(p, Len(p) - 1, Len(p)) = <<Slash, "*">>)
              => p \in Range(fn.patterns)

\* C30: when no record tied with the top record's score is a deny, the top
\* record is an allow and the decision is ALLOW; a DENY with a matched
\* record comes from the branch that found a deny in the tied group, and
\* the matched record is the first such deny.
C30_FinalBranchAllows ==
    (QueryOk /\ call.found.value # <<>>) =>
        LET l == call.found.value
            top == l[1]
            Tied(p) == areScoresEqual(p.score, top.score)
            IsDeny(p) == p.effect = "deny"
            denies == SelectSeq(SelectSeq(l, Tied), IsDeny)
        IN /\ denies = <<>> =>
                 /\ top.effect = "allow"
                 /\ response.decision = "ALLOW"
                 /\ response.matched_permissions = MapMatched(<<top>>)
           /\ (response.decision = "DENY" /\ response.matched_permissions # <<>>) =>
                 /\ denies # <<>>
                 /\ response.matched_permissions = MapMatched(<<denies[1]>>)

\* the final branch taken: allows only, and the top one granted
C30_Witness ==
    /\ QueryOk
    /\ Len(call.found.value) = 2
    /\ \A i \in 1..2 : call.found.value[i].effect = "allow"
    /\ call.found.value[1].score # call.found.value[2].score
    /\ response.decision = "ALLOW"
    /\ response.matched_permissions = MapMatched(<<call.found.value[1]>>)
\* the responses authorize gives for a request when it is the only call
AloneResponses(req) == {out.response : out \in authorize(req, store)}

\* C28: whatever the interleaving of the calls in flight against the
\* unchanging table, every call ends with a response it can end with when
\* run alone, and a step of one call changes nothing of another call nor
\* the table.
C28_Independent ==
    /\ [](\A i \in 1..MaxCalls :
             inflight[i].pc = "done" =>
                inflight[i].response \in AloneResponses(inflight[i].request))
    /\ [][/\ store' = store
          /\ \A i, j \in 1..MaxCalls :
                (i # j /\ inflight'[i] # inflight[i]) => inflight'[j] = inflight[j]]_vars

\* two calls of different users finished with different decisions, the
\* second while the first was still waiting for its query
C28_Witness ==
    /\ inflight[1].pc = "checkPermission"
    /\ inflight[2].pc = "done"
    /\ inflight[1].trace.userId # inflight[2].trace.userId
    /\ inflight[2].response.decision = "ALLOW"
    /\ inflight[1].trace.found.ok /\ inflight[1].trace.found.value # <<>>
    /\ inflight[1].trace.found.value[1].effect = "deny"
====
